---- MODULE Spec2Model ----
(***************************************************************************)
(* Knowledge sync for Open WebUI (src/knowledge-sync/sync_knowledge.py):   *)
(* the reconciliation of definition files against the sync cache and the   *)
(* remote knowledge collections.  A process (Procs) is one run of main();  *)
(* every remote call of sync_collection is one step, with the outcome of   *)
(* the call chosen by the remote side.                                     *)
(***************************************************************************)
EXTENDS Integers, Sequences, FiniteSets, TLC

\* ------------------------------------------------------------------ bounds

\* distinct byte contents a source file can have
MaxContent == 2
\* runs of main() in one behaviour
MaxRuns == 2
\* edits of source files and definition files in one behaviour
MaxEdits == 1
\* remote calls that fail in one behaviour
MaxFailures == 2
\* file identifiers the remote store hands out
MaxIds == 7
\* knowledge bases the remote store holds
MaxKbs == 3
\* iterations of watch's loop
MaxIters == 2
\* lines of a definition file written at will
MaxLines == 3
\* file system events the observer of the indexer delivers
MaxEvents == 3

\* ------------------------------------------------------- values and helpers

\* Python's None / a missing identifier
NoId == 0
\* kb_id = "dry-run-id"
DryRunId == -1
\* a path that does not exist
Absent == 0
\* a file whose read raises (permission denied)
Unreadable == -1
\* _file_hash's "" for a file it cannot read
EmptyHash == <<>>

EmptyMap == [x \in {} |-> NoId]
Get(f, k, default) == IF k \in DOMAIN f THEN f[k] ELSE default
Put(f, k, v) == [x \in DOMAIN f \cup {k} |-> IF x = k THEN v ELSE f[x]]
Del(f, k) == [x \in DOMAIN f \ {k} |-> f[x]]

RECURSIVE Perms(_)
Perms(S) == IF S = {} THEN {<<>>}
            ELSE UNION {{<<x>> \o s : s \in Perms(S \ {x})} : x \in S}

Last(s) == s[Len(s)]

\* ------------------------------------------------- filesystem, definitions

\* knowledge_dir/*.md except config.md, in the order sync_all visits them
Colls == <<"k1", "k2">>
CollSet == {Colls[i] : i \in 1..Len(Colls)}

\* source files the operator edits; a path is its sequence of segments
Paths == {<<"d", "a.md">>, <<"d", "b.md">>, <<"e", "a.md">>}
\* files that are there and never change: a suffix outside the accepted
\* set, and a file under a version-control directory
FixedPaths == {<<"d", "c.bin">>, <<"d", ".git", "x.md">>}
AllPaths == Paths \cup FixedPaths
DirPaths == {<<"d">>, <<"e">>}

\* PATH_PREFIX_MAP = "h:d"
PrefixFrom == "h"
PrefixTo == "d"

\* DEFAULT_EXTENSIONS, DEFAULT_EXCLUDES (no config.md)
Extensions == {".md", ".txt", ".rst", ".yaml", ".yml", ".json"}
ExcludedSegments == {"node_modules", ".git", "__pycache__"}

\* symbolic links: one to a source file, one whose target does not exist
LinkToFile == <<"l">>
DanglingLink == <<"dl">>
MissingPath == <<"gone">>

FileName(path) == Last(path)

Suffix(name) ==
    CASE name = "a.md" -> ".md"
      [] name = "b.md" -> ".md"
      [] name = "x.md" -> ".md"
      [] name = "c.bin" -> ".bin"
      [] OTHER -> ""

Names == {FileName(p) : p \in Paths}

\* the definitions the operator writes: lines are path references, comments
\* ("#") or empty
CommentLine == <<"#">>
BlankLine == <<>>
DefChoices == {
    << <<"d">> >>,
    << <<"d", "a.md">>, <<"e", "a.md">> >>,
    << <<"d", "b.md">> >>,
    << CommentLine, <<"h", "b.md">>, <<"d", "b.md">> >>,
    << BlankLine >>,
    << <<"e", "a.md">> >> }

VARIABLES
    fs,        \* source file -> Absent, Unreadable or its content (1..MaxContent)
    defs,      \* collection -> lines of its definition file
    disk,      \* the cache file: collection -> file name -> entry
    kbs,       \* remote: knowledge base id (index) -> name
    att,       \* remote: knowledge base id -> set of <<file name, file id>> attached
    uploads,   \* remote: file id (index) -> file name it was uploaded under
    proc,      \* process -> the state of its run of main()
    runs,      \* runs of main() started
    edits,     \* edits made
    fails,     \* failed remote calls
    stable,    \* collection -> the knowledge base the last pass over it synced, if
               \* that pass was live, not forced, every call of it succeeded and
               \* nothing changed since; NoId otherwise
    accepted,  \* <<collection, file name, file id>> whose attach succeeded
    dryRes,    \* collection -> what the last dry-run pass returned, while
               \* nothing changed since
    mtime,     \* collection -> st_mtime of its definition file
    broken     \* collections whose last live pass was interrupted

vars == <<fs, defs, disk, kbs, att, uploads, proc, runs, edits, fails,
          stable, accepted, dryRes, mtime, broken>>

\* _file_hash: sha256(content)[:16], "" when the read fails
Sha256(content) == <<"sha256", content>>
Prefix16(digest) == <<"sha256[:16]", digest[2]>>
FileHash(path) ==
    IF fs[path] \in {Absent, Unreadable} THEN EmptyHash
    ELSE Prefix16(Sha256(fs[path]))

\* _is_excluded: fnmatch of "**/<segment>/**" against the full path
IsExcluded(path) ==
    \E i \in 1..(Len(path) - 1) : path[i] \in ExcludedSegments

\* _translate_path
TranslatePath(ref) ==
    IF Len(ref) > 0 /\ ref[1] = PrefixFrom THEN [ref EXCEPT ![1] = PrefixTo]
    ELSE ref

IsUnder(path, dir) ==
    /\ Len(path) > Len(dir)
    /\ SubSeq(path, 1, Len(dir)) = dir

Accepted(path) == Suffix(FileName(path)) \in Extensions /\ ~IsExcluded(path)

\* Path.resolve() of a symbolic link (lines 133-135)
Resolve(path) ==
    CASE path = LinkToFile -> <<"d", "b.md">>
      [] path = DanglingLink -> MissingPath
      [] OTHER -> path

\* _resolve_path: the possible results (rglob's order is the filesystem's)
ResolvePath(ref) ==
    LET path == Resolve(TranslatePath(ref)) IN
    IF path \in AllPaths
    THEN IF fs[path] = Absent THEN {<<>>}
         ELSE IF Accepted(path) THEN {<<path>>} ELSE {<<>>}
    ELSE IF path \in DirPaths
    THEN Perms({f \in AllPaths : IsUnder(f, path) /\ fs[f] # Absent /\ Accepted(f)})
    ELSE {<<>>}

\* ParseDefinition giving up at the first reference that resolves to nothing
RECURSIVE ParseDefinition_StopsAtMissing(_)
ParseDefinition_StopsAtMissing(lines) ==
    IF lines = <<>> THEN {<<>>}
    ELSE LET line == Head(lines) IN
         IF line = BlankLine \/ line[1] = "#"
         THEN ParseDefinition_StopsAtMissing(Tail(lines))
         ELSE IF ResolvePath(line) = {<<>>} THEN {<<>>}
         ELSE {a \o b : a \in ResolvePath(line),
                        b \in ParseDefinition_StopsAtMissing(Tail(lines))}

\* _parse_definition
RECURSIVE ParseDefinition(_)
ParseDefinition(lines) ==
    IF lines = <<>> THEN {<<>>}
    ELSE LET line == Head(lines) IN
         IF line = BlankLine \/ line[1] = "#"
         THEN ParseDefinition(Tail(lines))
         ELSE {a \o b : a \in ResolvePath(line), b \in ParseDefinition(Tail(lines))}

\* ------------------------------------------------------------ the process

Procs == {"cli"}

\* collection_cache.get(filename, {}) of a file without entry: .get gives None
NoneHash == <<"None">>
NoEntry == [hash |-> NoneHash, file_id |-> NoId]
NoCounts == <<>>

\* a process that is not running
Idle ==
    [pc |-> "off",
     argForce |-> FALSE, argDry |-> FALSE,   \* args.force, args.dry_run
     cache |-> EmptyMap,                     \* self.cache
     todo |-> <<>>,                          \* md_files not yet synced
     results |-> <<>>,                       \* what each sync_collection returned
     cur |-> "",                             \* collection_name
     force |-> FALSE, dry |-> FALSE,         \* sync_collection's arguments
     files |-> <<>>, idx |-> 0,              \* files_to_sync, position in it
     kb |-> NoId,                            \* kb_id
     existing |-> EmptyMap,                  \* existing_files
     synced |-> {},                          \* synced_filenames
     visited |-> {},                         \* names the removal scan has seen
     cnt |-> <<0, 0, 0>>,                    \* added, updated, removed
     fhash |-> EmptyHash,                    \* file_hash
     chash |-> EmptyHash,                    \* content_hash
     fid |-> NoId,                           \* file_id
     calls |-> <<>>,                         \* remote calls of this pass
     second |-> NoId,                        \* stable[cur] at the start of a live, unforced pass
     expect |-> NoCounts,                    \* dryRes[cur].cnt at the start
     disk0 |-> EmptyMap,                     \* the cache file at the start
     argWatch |-> FALSE,                     \* args.watch
     mode |-> "sync",                        \* "sync": in sync_all, "watch": in watch
     ret |-> "",                             \* where watch goes on after sync_collection
     last_check |-> EmptyMap,                \* watch's last_check
     iter |-> 0,                             \* iterations of watch's loop
     exit |-> 0,                             \* the exit status of the process
     api_key |-> TRUE,                       \* self.api_key is not empty
     saves |-> 0,                            \* _save_cache calls of this pass
     resume |-> FALSE]                       \* the last live pass over cur was interrupted

Call(op, i, name, id, h, res) ==
    [op |-> op, i |-> i, name |-> name, id |-> id, h |-> h, res |-> res]

MutationOps == {"create", "purge", "upload", "attach", "detach"}

AllOk(calls) == \A j \in 1..Len(calls) : calls[j].res = "ok"

\* a remote call may fail while the budget of failures lasts
MayFail(n) == fails + n <= MaxFailures
Failed(o) == IF o = "ok" THEN 0 ELSE 1

NoDry == [valid |-> FALSE, force |-> FALSE, cnt |-> NoCounts]

\* The deployment after two earlier syncs of k1 (a.md and b.md added, then
\* a.md rewritten and updated: its first upload is still attached) and with
\* the definition of k2 just written: k2 has no knowledge base yet.
InitCache ==
    Put(EmptyMap, "k1",
        Put(Put(EmptyMap, "a.md", [hash |-> Prefix16(Sha256(1)), file_id |-> 3]),
            "b.md", [hash |-> Prefix16(Sha256(1)), file_id |-> 2]))

InitUploads == <<"a.md", "b.md", "a.md">>

InitEnv ==
    /\ fs = [p \in AllPaths |-> IF p = <<"e", "a.md">> THEN 2 ELSE 1]
    /\ defs = [c \in CollSet |-> IF c = "k1" THEN << <<"d">> >>
                                 ELSE << <<"e", "a.md">> >>]
    /\ disk = InitCache
    /\ kbs = <<"k1">>
    /\ att = << {<<"a.md", 1>>, <<"b.md", 2>>, <<"a.md", 3>>} >>
    /\ uploads = InitUploads
    /\ runs = 0
    /\ edits = 0
    /\ fails = 0
    /\ stable = [c \in CollSet |-> NoId]
    /\ accepted = {<<"k1", "a.md", 1>>, <<"k1", "b.md", 2>>, <<"k1", "a.md", 3>>}
    /\ dryRes = [c \in CollSet |-> NoDry]
    /\ mtime = [c \in CollSet |-> 0]
    /\ broken = {}

Init ==
    /\ InitEnv
    /\ proc = [p \in Procs |-> Idle]

\* main(): the constructor loads the cache file, sync_all lists the definitions
StartRun(p, f, d) ==
    /\ proc[p].pc \in {"off", "crashed"}
    /\ runs < MaxRuns
    /\ runs' = runs + 1
    /\ proc' = [proc EXCEPT ![p] =
                  [Idle EXCEPT !.pc = "all", !.argForce = f, !.argDry = d,
                               !.cache = disk, !.todo = Colls]]
    /\ UNCHANGED <<fs, defs, disk, kbs, att, uploads, edits, fails,
                   stable, accepted, dryRes, mtime, broken>>

\* sync_collection's arguments: sync_all passes its own (line 436), watch
\* passes none (lines 463, 466, 481)
CallForce(q) == IF q.mode = "watch" THEN FALSE ELSE q.argForce
CallDry(q) == IF q.mode = "watch" THEN FALSE ELSE q.argDry

\* watch goes on with the next definition file, or sleeps (lines 457, 484)
NextDefinition(q) ==
    [q EXCEPT !.todo = Tail(@),
              !.pc = IF Tail(q.todo) = <<>> THEN "sleep" ELSE "watch"]

\* sync_collection returns: to sync_all's loop, or into watch's loop after
\* line 463/466 (the scan of the source files follows) or after line 481
\* (the break)
Return(q, counts) ==
    LET done == [q EXCEPT !.results = Append(@, <<q.cur, counts>>)] IN
    IF q.mode = "watch"
    THEN IF q.ret = "wscan" THEN [done EXCEPT !.pc = "wscan"]
         ELSE NextDefinition(done)
    ELSE [done EXCEPT !.pc = "all", !.todo = Tail(@)]

\* EmptyDefinition going on to the lookup of the knowledge base
EmptyDefinition_GoesOn(q) == [q EXCEPT !.pc = "kbs"]

\* no file to sync: the return of lines 320-322
EmptyDefinition(q) == Return(q, <<0, 0, 0>>)

\* sync_collection, to the return for an empty definition (lines 312-322)
BeginPass(p) ==
    LET q == proc[p]
        c == Head(q.todo)
        f == CallForce(q)
        d == CallDry(q)
        fresh(fl) == [q EXCEPT !.cur = c, !.files = fl,
                               !.force = f, !.dry = d,
                               !.idx = 0, !.kb = NoId, !.existing = EmptyMap,
                               !.synced = {}, !.visited = {},
                               !.cnt = <<0, 0, 0>>, !.fid = NoId,
                               !.fhash = EmptyHash, !.chash = EmptyHash,
                               !.calls = <<>>,
                               !.second = IF d \/ f THEN NoId ELSE stable[c],
                               !.expect = IF /\ ~d
                                             /\ dryRes[c].valid
                                             /\ dryRes[c].force = f
                                          THEN dryRes[c].cnt ELSE NoCounts,
                               !.disk0 = disk, !.saves = 0,
                               !.resume = (c \in broken /\ ~d)] IN
    /\ q.pc \in {"all", "wsync"}
    /\ q.todo # <<>>
    /\ \E fl \in ParseDefinition(defs[c]) :
         IF fl = <<>>
         THEN /\ proc' = [proc EXCEPT ![p] = EmptyDefinition(fresh(fl))]
              /\ dryRes' = [dryRes EXCEPT ![c] =
                              IF d
                              THEN [valid |-> TRUE, force |-> f, cnt |-> <<0, 0, 0>>]
                              ELSE NoDry]
         ELSE /\ proc' = [proc EXCEPT ![p] = [fresh(fl) EXCEPT !.pc = "kbs"]]
              /\ dryRes' = [dryRes EXCEPT ![c] = NoDry]
    /\ stable' = [stable EXCEPT ![c] = NoId]
    /\ broken' = IF d THEN broken ELSE broken \ {c}
    /\ UNCHANGED <<fs, defs, disk, kbs, att, uploads, runs, edits, fails, accepted,
                   mtime>>

\* _get_knowledge_bases and the lookup of the collection's name
GetKnowledgeBases(p, o) ==
    LET q == proc[p]
        found == IF o = "ok" THEN {k \in 1..Len(kbs) : kbs[k] = q.cur} ELSE {} IN
    /\ q.pc = "kbs"
    /\ MayFail(Failed(o))
    /\ fails' = fails + Failed(o)
    /\ \E k \in (IF found = {} THEN {NoId} ELSE found) :
         proc' = [proc EXCEPT ![p] =
                    [q EXCEPT !.calls = Append(@, Call("list_kbs", 0, q.cur, NoId, EmptyHash, o)),
                              !.kb = IF k = NoId /\ q.dry THEN DryRunId ELSE k,
                              !.pc = IF k = NoId /\ ~q.dry THEN "create" ELSE "files"]]
    /\ UNCHANGED <<fs, defs, disk, kbs, att, uploads, runs, edits,
                   stable, accepted, dryRes, mtime, broken>>

\* CreateFailed going on to the files without a knowledge base
CreateFailed_GoesOn(q) == [q EXCEPT !.pc = "scan"]

\* the creation failed: the pass ends (lines 332-333)
CreateFailed(q) == Return(q, <<0, 0, 0>>)

\* _create_knowledge_base; None aborts the pass
CreateKnowledgeBase(p, o) ==
    LET q == proc[p]
        logged == [q EXCEPT !.calls = Append(@, Call("create", 0, q.cur, NoId, EmptyHash, o))] IN
    /\ q.pc = "create"
    /\ MayFail(Failed(o))
    /\ fails' = fails + Failed(o)
    /\ IF o = "ok"
       THEN /\ Len(kbs) < MaxKbs
            /\ kbs' = Append(kbs, q.cur)
            /\ att' = Append(att, {})
            /\ proc' = [proc EXCEPT ![p] =
                          [logged EXCEPT !.kb = Len(kbs) + 1, !.pc = "files"]]
       ELSE /\ proc' = [proc EXCEPT ![p] = CreateFailed(logged)]
            /\ UNCHANGED <<kbs, att>>
    /\ UNCHANGED <<fs, defs, disk, uploads, runs, edits, stable, accepted, dryRes,
                   mtime, broken>>

\* the {filename: id} dictionaries a listing of the attachments can give: for
\* a name attached under several identifiers the last item of the response wins
Listings(S) ==
    {f \in [{x[1] : x \in S} -> {x[2] : x \in S}] :
        \A n \in DOMAIN f : <<n, f[n]>> \in S}

NextPc(q, i) == IF i > Len(q.files) THEN "scan" ELSE "file"

\* ListedFiles answering with the files attached although the request failed
ListedFiles_IgnoresFailure(q, o) ==
    IF q.dry THEN {EmptyMap} ELSE Listings(att[q.kb])

\* existing_files: {} in a dry run (line 338) and when the request fails
\* (lines 205-207), else the response as a map from name to identifier
ListedFiles(q, o) ==
    IF q.dry \/ o # "ok" THEN {EmptyMap} ELSE Listings(att[q.kb])

\* _get_knowledge_files (skipped in a dry run) and the set-up of the loop
GetKnowledgeFiles(p, o) ==
    LET q == proc[p] IN
    /\ q.pc = "files"
    /\ q.dry => o = "ok"
    /\ MayFail(Failed(o))
    /\ fails' = fails + Failed(o)
    /\ \E listing \in ListedFiles(q, o) :
         proc' = [proc EXCEPT ![p] =
                    [q EXCEPT !.calls = IF q.dry THEN @
                                        ELSE Append(@, Call("list_files", 0, q.cur, q.kb, EmptyHash, o)),
                              !.existing = listing,
                              !.cache = IF q.cur \in DOMAIN @ THEN @
                                        ELSE Put(@, q.cur, EmptyMap),
                              !.cnt = <<0, 0, 0>>, !.synced = {},
                              !.idx = 1, !.pc = NextPc(q, 1)]]
    /\ UNCHANGED <<fs, defs, disk, kbs, att, uploads, runs, edits,
                   stable, accepted, dryRes, mtime, broken>>

\* SkipCond without the comparison of the hashes
SkipCond_IgnoresHash(q, name, h) ==
    LET entry == Get(q.cache[q.cur], name, NoEntry) IN
    /\ ~q.force
    /\ entry.file_id # NoId
    /\ name \in DOMAIN q.existing

\* SkipCond without the look into the remote listing
SkipCond_IgnoresListing(q, name, h) ==
    LET entry == Get(q.cache[q.cur], name, NoEntry) IN
    /\ ~q.force
    /\ entry.hash = h
    /\ entry.file_id # NoId

\* SkipCond without the look at force
SkipCond_IgnoresForce(q, name, h) ==
    LET entry == Get(q.cache[q.cur], name, NoEntry) IN
    /\ entry.hash = h
    /\ entry.file_id # NoId
    /\ name \in DOMAIN q.existing

\* the loop's skip test (line 359)
SkipCond(q, name, h) ==
    LET entry == Get(q.cache[q.cur], name, NoEntry) IN
    /\ ~q.force
    /\ entry.hash = h
    /\ entry.file_id # NoId
    /\ name \in DOMAIN q.existing

\* added/updated after a file was synced (lines 383-386, 390-393)
Count(q, name) ==
    IF name \in DOMAIN q.existing
    THEN <<q.cnt[1], q.cnt[2] + 1, q.cnt[3]>>
    ELSE <<q.cnt[1] + 1, q.cnt[2], q.cnt[3]>>

\* the loop goes on with the next file
Continue(q) == [q EXCEPT !.idx = @ + 1, !.pc = NextPc(q, q.idx + 1)]

\* the loop body up to the first remote call (lines 350-367): hash, skip
\* test, the dry-run count, the read of the content
ProcessFile(p) ==
    LET q == proc[p]
        path == q.files[q.idx]
        name == FileName(path)
        h == FileHash(path)
        seen == [q EXCEPT !.synced = @ \cup {name}, !.fhash = h] IN
    /\ q.pc = "file"
    /\ proc' = [proc EXCEPT ![p] =
                  IF SkipCond(q, name, h) THEN Continue(seen)
                  ELSE IF q.dry THEN Continue([seen EXCEPT !.cnt = Count(q, name)])
                  ELSE IF fs[path] \in {Absent, Unreadable}
                  THEN [seen EXCEPT !.pc = "crashed"]
                  ELSE [seen EXCEPT !.chash = Sha256(fs[path]), !.pc = "purge"]]
    /\ UNCHANGED <<fs, defs, disk, kbs, att, uploads, runs, edits, fails,
                   stable, accepted, dryRes, mtime, broken>>

\* ClearQdrantDuplicates deleting by the cached 16-digit hash of the file
ClearQdrantDuplicates_CachedHash(q, o1, o2) ==
    [q EXCEPT !.calls = @ \o <<Call("purge", q.idx, "open-webui_knowledge", NoId, q.fhash, o1),
                               Call("purge", q.idx, "open-webui_files", NoId, q.fhash, o2)>>]

\* ClearQdrantDuplicates leaving the second collection alone when the
\* deletion from the first one failed
ClearQdrantDuplicates_StopsAtFailure(q, o1, o2) ==
    IF o1 = "ok"
    THEN [q EXCEPT !.calls = @ \o <<Call("purge", q.idx, "open-webui_knowledge", NoId, q.chash, o1),
                                    Call("purge", q.idx, "open-webui_files", NoId, q.chash, o2)>>]
    ELSE [q EXCEPT !.calls = Append(@, Call("purge", q.idx, "open-webui_knowledge", NoId, q.chash, o1))]

\* _clear_qdrant_duplicates: one deletion per backing collection, whatever
\* the first one answered
ClearQdrantDuplicates(q, o1, o2) ==
    [q EXCEPT !.calls = @ \o <<Call("purge", q.idx, "open-webui_knowledge", NoId, q.chash, o1),
                               Call("purge", q.idx, "open-webui_files", NoId, q.chash, o2)>>]

\* line 370
PurgeBeforeUpload(p, o1, o2) ==
    LET q == proc[p] IN
    /\ q.pc = "purge"
    /\ MayFail(Failed(o1) + Failed(o2))
    /\ fails' = fails + Failed(o1) + Failed(o2)
    /\ proc' = [proc EXCEPT ![p] =
                  [ClearQdrantDuplicates(q, o1, o2) EXCEPT !.pc = "upload"]]
    /\ UNCHANGED <<fs, defs, disk, kbs, att, uploads, runs, edits,
                   stable, accepted, dryRes, mtime, broken>>

\* _upload_file; None skips the file (lines 373-375)
UploadFile(p, o) ==
    LET q == proc[p]
        name == FileName(q.files[q.idx])
        logged(id) == [q EXCEPT !.calls = Append(@, Call("upload", q.idx, name, id, EmptyHash, o))] IN
    /\ q.pc = "upload"
    /\ MayFail(Failed(o))
    /\ fails' = fails + Failed(o)
    /\ IF o = "ok"
       THEN /\ Len(uploads) < MaxIds
            /\ uploads' = Append(uploads, name)
            /\ proc' = [proc EXCEPT ![p] =
                          [logged(Len(uploads) + 1) EXCEPT !.fid = Len(uploads) + 1,
                                                           !.pc = "attach"]]
       ELSE /\ proc' = [proc EXCEPT ![p] = Continue(logged(NoId))]
            /\ UNCHANGED uploads
    /\ UNCHANGED <<fs, defs, disk, kbs, att, runs, edits, stable, accepted, dryRes,
                   mtime, broken>>

\* the attach succeeded: the cache entry and the count (lines 382-386)
Synced(q) ==
    LET name == FileName(q.files[q.idx]) IN
    Continue([q EXCEPT !.cache[q.cur] = Put(@, name, [hash |-> q.fhash, file_id |-> q.fid]),
                       !.cnt = Count(q, name)])

\* the remote store attaches the uploaded file to the knowledge base
Attach(kb, id) == [att EXCEPT ![kb] = @ \cup {<<uploads[id], id>>}]

\* AfterAttach writing the cache entry although the attach failed
AfterAttach_WritesOnFailure(q, o) ==
    CASE o = "ok" -> Synced(q)
      [] o = "dup" -> IF q.chash # EmptyHash THEN [q EXCEPT !.pc = "repurge"]
                      ELSE Continue(q)
      [] OTHER -> Synced(q)

\* AfterAttach retrying after any failure
AfterAttach_RetriesAnyFailure(q, o) ==
    CASE o = "ok" -> Synced(q)
      [] OTHER -> [q EXCEPT !.pc = "repurge"]

\* what follows the first attach request: the cache entry, the purge and
\* the retry after "Duplicate content", the next file after another failure
\* (lines 257-262, 276-282, 381-388)
AfterAttach(q, o) ==
    CASE o = "ok" -> Synced(q)
      [] o = "dup" -> IF q.chash # EmptyHash THEN [q EXCEPT !.pc = "repurge"]
                      ELSE Continue(q)
      [] OTHER -> Continue(q)

\* _add_file_to_knowledge, the first request (lines 251-256)
AddFileToKnowledge(p, o) ==
    LET q == proc[p]
        name == FileName(q.files[q.idx])
        logged == [q EXCEPT !.calls = Append(@, Call("attach", q.idx, name, q.fid, EmptyHash, o))] IN
    /\ q.pc = "attach"
    /\ MayFail(Failed(o))
    /\ fails' = fails + Failed(o)
    /\ att' = IF o = "ok" THEN Attach(q.kb, q.fid) ELSE att
    /\ accepted' = IF o = "ok" THEN accepted \cup {<<q.cur, name, q.fid>>} ELSE accepted
    /\ proc' = [proc EXCEPT ![p] = AfterAttach(logged, o)]
    /\ UNCHANGED <<fs, defs, disk, kbs, uploads, runs, edits, stable, dryRes,
                   mtime, broken>>

\* line 265
PurgeBeforeRetry(p, o1, o2) ==
    LET q == proc[p] IN
    /\ q.pc = "repurge"
    /\ MayFail(Failed(o1) + Failed(o2))
    /\ fails' = fails + Failed(o1) + Failed(o2)
    /\ proc' = [proc EXCEPT ![p] =
                  [ClearQdrantDuplicates(q, o1, o2) EXCEPT !.pc = "reattach"]]
    /\ UNCHANGED <<fs, defs, disk, kbs, att, uploads, runs, edits,
                   stable, accepted, dryRes, mtime, broken>>

\* AfterRetry reporting the failure also when the retry succeeded
AfterRetry_DropsSuccess(q, o) == Continue(q)

\* what follows the retried attach request (lines 272-277, 381-388)
AfterRetry(q, o) == IF o = "ok" THEN Synced(q) ELSE Continue(q)

\* _add_file_to_knowledge, the retry (lines 266-271)
RetryAdd(p, o) ==
    LET q == proc[p]
        name == FileName(q.files[q.idx])
        logged == [q EXCEPT !.calls = Append(@, Call("attach", q.idx, name, q.fid, EmptyHash, o))] IN
    /\ q.pc = "reattach"
    /\ MayFail(Failed(o))
    /\ fails' = fails + Failed(o)
    /\ att' = IF o = "ok" THEN Attach(q.kb, q.fid) ELSE att
    /\ accepted' = IF o = "ok" THEN accepted \cup {<<q.cur, name, q.fid>>} ELSE accepted
    /\ proc' = [proc EXCEPT ![p] = AfterRetry(logged, o)]
    /\ UNCHANGED <<fs, defs, disk, kbs, uploads, runs, edits, stable, dryRes,
                   mtime, broken>>

\* ToRemove without the look at the names the loop went through
ToRemove_AllListed(q) == DOMAIN q.existing \ q.visited

\* names of the remote listing the removal scan has still to visit
ToRemove(q) == (DOMAIN q.existing \ q.synced) \ q.visited

\* the remote store detaches a file from the knowledge base
Detach(kb, id) == [att EXCEPT ![kb] = {x \in @ : x[2] # id}]

\* one round of the removal scan (lines 396-403)
RemoveFile(p, o) ==
    LET q == proc[p] IN
    /\ q.pc = "scan"
    /\ q.dry => o = "ok"
    /\ MayFail(Failed(o))
    /\ fails' = fails + Failed(o)
    /\ \E name \in ToRemove(q) :
         /\ att' = IF ~q.dry /\ o = "ok" THEN Detach(q.kb, q.existing[name]) ELSE att
         /\ proc' = [proc EXCEPT ![p] =
                       [q EXCEPT !.calls = IF q.dry THEN @
                                           ELSE Append(@, Call("detach", 0, name, q.existing[name], EmptyHash, o)),
                                 !.cache[q.cur] = Del(@, name),
                                 !.cnt = <<q.cnt[1], q.cnt[2], q.cnt[3] + 1>>,
                                 !.visited = @ \cup {name}]]
    /\ UNCHANGED <<fs, defs, disk, kbs, uploads, runs, edits, stable, accepted, dryRes,
                   mtime, broken>>

\* Persist writing the cache file in a dry run too
Persist_InDryRun(q) == q.cache

\* Persist leaving the cache file as it is
Persist_Never(q) == disk

\* the cache file after the pass: _save_cache unless dry_run (lines 405-406)
Persist(q) == IF q.dry THEN disk ELSE q.cache

\* _save_cache calls of the pass after its end (lines 405-406)
Saves(q) == IF q.dry THEN q.saves ELSE q.saves + 1

\* the end of the removal scan, _save_cache and the return (lines 405-408)
SaveCache(p) ==
    LET q == proc[p] IN
    /\ q.pc = "scan"
    /\ ToRemove(q) = {}
    /\ disk' = Persist(q)
    /\ proc' = [proc EXCEPT ![p] = Return([q EXCEPT !.saves = Saves(q)], q.cnt)]
    /\ stable' = [stable EXCEPT ![q.cur] =
                    IF ~q.dry /\ ~q.force /\ AllOk(q.calls) THEN q.kb ELSE NoId]
    /\ dryRes' = [dryRes EXCEPT ![q.cur] =
                    IF q.dry THEN [valid |-> TRUE, force |-> q.force, cnt |-> q.cnt]
                    ELSE NoDry]
    /\ UNCHANGED <<fs, defs, kbs, att, uploads, runs, edits, fails, accepted,
                   mtime, broken>>

\* sync_all's summary and the end of main()
FinishRun(p) ==
    /\ proc[p].pc = "all"
    /\ proc[p].todo = <<>>
    /\ ~proc[p].argWatch
    /\ proc' = [proc EXCEPT ![p] = Idle]
    /\ UNCHANGED <<fs, defs, disk, kbs, att, uploads, runs, edits, fails,
                   stable, accepted, dryRes, mtime, broken>>

\* ------------------------------------------------------- the environment

\* no pass is under way
Quiet == \A p \in DOMAIN proc : proc[p].pc \in {"off", "crashed", "sleep"}

\* the operator writes, removes or locks a source file
WriteFile(path, v) ==
    /\ Quiet
    /\ edits < MaxEdits
    /\ v # fs[path]
    /\ fs' = [fs EXCEPT ![path] = v]
    /\ edits' = edits + 1
    /\ stable' = [c \in CollSet |-> NoId]
    /\ dryRes' = [c \in CollSet |-> NoDry]
    /\ UNCHANGED <<defs, disk, kbs, att, uploads, proc, runs, fails, accepted,
                   mtime, broken>>

\* the operator rewrites a definition file
EditDefinition(c, d) ==
    /\ Quiet
    /\ edits < MaxEdits
    /\ d # defs[c]
    /\ defs' = [defs EXCEPT ![c] = d]
    /\ mtime' = [mtime EXCEPT ![c] = @ + 1]
    /\ edits' = edits + 1
    /\ stable' = [stable EXCEPT ![c] = NoId]
    /\ dryRes' = [dryRes EXCEPT ![c] = NoDry]
    /\ UNCHANGED <<fs, disk, kbs, att, uploads, proc, runs, fails, accepted,
                   broken>>

\* the definition files the operator rewrites
Edited == {"k1"}

Outcomes == {"ok", "err"}
AttachOutcomes == {"ok", "dup", "err"}

Next ==
    \/ \E p \in Procs, f \in BOOLEAN, d \in BOOLEAN : StartRun(p, f, d)
    \/ \E p \in Procs : BeginPass(p)
    \/ \E p \in Procs, o \in Outcomes : GetKnowledgeBases(p, o)
    \/ \E p \in Procs, o \in Outcomes : CreateKnowledgeBase(p, o)
    \/ \E p \in Procs, o \in Outcomes : GetKnowledgeFiles(p, o)
    \/ \E p \in Procs : ProcessFile(p)
    \/ \E p \in Procs, o1 \in Outcomes, o2 \in Outcomes : PurgeBeforeUpload(p, o1, o2)
    \/ \E p \in Procs, o \in Outcomes : UploadFile(p, o)
    \/ \E p \in Procs, o \in AttachOutcomes : AddFileToKnowledge(p, o)
    \/ \E p \in Procs, o1 \in Outcomes, o2 \in Outcomes : PurgeBeforeRetry(p, o1, o2)
    \/ \E p \in Procs, o \in Outcomes : RetryAdd(p, o)
    \/ \E p \in Procs, o \in Outcomes : RemoveFile(p, o)
    \/ \E p \in Procs : SaveCache(p)
    \/ \E p \in Procs : FinishRun(p)
    \/ \E path \in Paths, v \in (1..MaxContent) \cup {Absent, Unreadable} : WriteFile(path, v)
    \/ \E c \in Edited, d \in DefChoices : EditDefinition(c, d)

Spec == Init /\ [][Next]_vars

\* ------------------------------------------------------- the webhook server

\* the processes the /sync requests start
Hooks == {"hook"}
AllProcs == Procs \cup Hooks

\* /sync: subprocess.run(['python3', SYNC_SCRIPT]), no --force, no --dry-run
SyncRequest(p) == StartRun(p, FALSE, FALSE)

InitHook ==
    /\ InitEnv
    /\ proc = [p \in AllProcs |-> Idle]

\* a run from the command line and a run a /sync request started, side by
\* side, with a remote store that answers every request; the attach may meet
\* the duplicate-content condition, and a source file may be deleted while no
\* run is under way
NextHook ==
    \/ \E p \in Procs : StartRun(p, FALSE, FALSE)
    \/ \E p \in Hooks : SyncRequest(p)
    \/ \E p \in AllProcs : BeginPass(p)
    \/ \E p \in AllProcs : GetKnowledgeBases(p, "ok")
    \/ \E p \in AllProcs : CreateKnowledgeBase(p, "ok")
    \/ \E p \in AllProcs : GetKnowledgeFiles(p, "ok")
    \/ \E p \in AllProcs : ProcessFile(p)
    \/ \E p \in AllProcs : PurgeBeforeUpload(p, "ok", "ok")
    \/ \E p \in AllProcs : UploadFile(p, "ok")
    \/ \E p \in AllProcs, o \in {"ok", "dup"} : AddFileToKnowledge(p, o)
    \/ \E p \in AllProcs : PurgeBeforeRetry(p, "ok", "ok")
    \/ \E p \in AllProcs, o \in Outcomes : RetryAdd(p, o)
    \/ \E p \in AllProcs : RemoveFile(p, "ok")
    \/ \E p \in AllProcs : SaveCache(p)
    \/ \E p \in AllProcs : FinishRun(p)
    \/ \E path \in Paths : WriteFile(path, Absent)

SpecHook == InitHook /\ [][NextHook]_vars

\* ----------------------------------------------------------------- watch

\* sync_all without a credential ending the process no sooner than with one
SyncAll_IgnoresKey(q, key) == q

\* sync_all's test of the credential: sys.exit(1) (lines 417-420)
SyncAll(q, key) ==
    IF key THEN q
    ELSE [Idle EXCEPT !.api_key = FALSE, !.exit = 1, !.argWatch = q.argWatch]

\* main() with all its arguments: --force, --dry-run, --watch, and whether
\* OPEN_WEBUI_API_KEY is set
Main(p, f, d, w, key) ==
    /\ proc[p].pc \in {"off", "crashed"}
    /\ runs < MaxRuns
    /\ runs' = runs + 1
    /\ proc' = [proc EXCEPT ![p] =
                  SyncAll([Idle EXCEPT !.pc = "all", !.argForce = f, !.argDry = d,
                                       !.argWatch = w, !.api_key = key,
                                       !.cache = disk, !.todo = Colls], key)]
    /\ UNCHANGED <<fs, defs, disk, kbs, att, uploads, edits, fails,
                   stable, accepted, dryRes, mtime, broken>>

\* sync_all has returned and main() calls watch (lines 511-513, 443-457)
EnterWatch(p) ==
    LET q == proc[p] IN
    /\ q.pc = "all"
    /\ q.todo = <<>>
    /\ q.argWatch
    /\ proc' = [proc EXCEPT ![p] =
                  [q EXCEPT !.mode = "watch", !.last_check = EmptyMap,
                            !.iter = 1, !.todo = Colls, !.pc = "watch"]]
    /\ UNCHANGED <<fs, defs, disk, kbs, att, uploads, runs, edits, fails,
                   stable, accepted, dryRes, mtime, broken>>

\* the definition file is newer than at the last look (lines 460-461)
MtimeAdvanced(q, c) == c \in DOMAIN q.last_check /\ mtime[c] > q.last_check[c]

\* the look at one definition file (lines 457-468)
WatchCheck(p) ==
    LET q == proc[p]
        c == Head(q.todo)
        seen == [q EXCEPT !.last_check = Put(@, c, mtime[c])] IN
    /\ q.pc = "watch"
    /\ proc' = [proc EXCEPT ![p] =
                  IF c \notin DOMAIN q.last_check \/ MtimeAdvanced(q, c)
                  THEN [seen EXCEPT !.pc = "wsync", !.ret = "wscan"]
                  ELSE [seen EXCEPT !.pc = "wscan"]]
    /\ UNCHANGED <<fs, defs, disk, kbs, att, uploads, runs, edits, fails,
                   stable, accepted, dryRes, mtime, broken>>

\* the test of one source file (lines 476-479)
SourceChanged(q, c, path) ==
    LET cached_hash == Get(Get(q.cache, c, EmptyMap), FileName(path), NoEntry).hash IN
    /\ cached_hash \notin {NoneHash, EmptyHash}
    /\ FileHash(path) # cached_hash

\* ScanFinds looking at the first source file only
ScanFinds_FirstFileOnly(q, c, fl) == fl # <<>> /\ SourceChanged(q, c, fl[1])

\* the scan of the source files meets a changed one (lines 475-479)
ScanFinds(q, c, fl) == \E i \in 1..Len(fl) : SourceChanged(q, c, fl[i])

\* the scan of the source files of one definition (lines 470-482)
WatchScan(p) ==
    LET q == proc[p]
        c == Head(q.todo) IN
    /\ q.pc = "wscan"
    /\ \E fl \in ParseDefinition(defs[c]) :
         proc' = [proc EXCEPT ![p] =
                    IF ScanFinds(q, c, fl)
                    THEN [q EXCEPT !.pc = "wsync", !.ret = "wnext"]
                    ELSE NextDefinition(q)]
    /\ UNCHANGED <<fs, defs, disk, kbs, att, uploads, runs, edits, fails,
                   stable, accepted, dryRes, mtime, broken>>

\* time.sleep is over: the next iteration (lines 449-455, 484)
Wake(p) ==
    LET q == proc[p] IN
    /\ q.pc = "sleep"
    /\ q.iter < MaxIters
    /\ proc' = [proc EXCEPT ![p] =
                  [q EXCEPT !.iter = @ + 1, !.todo = Colls, !.pc = "watch"]]
    /\ UNCHANGED <<fs, defs, disk, kbs, att, uploads, runs, edits, fails,
                   stable, accepted, dryRes, mtime, broken>>

\* Ctrl+C during the sleep: watch returns, main() ends (lines 486-488)
StopWatch(p) ==
    /\ proc[p].pc = "sleep"
    /\ proc' = [proc EXCEPT ![p] = Idle]
    /\ UNCHANGED <<fs, defs, disk, kbs, att, uploads, runs, edits, fails,
                   stable, accepted, dryRes, mtime, broken>>

\* runs with every combination of arguments, with and without the
\* credential; the remote store answers every request, except that an
\* upload may fail; the operator edits while no pass is under way
NextWatch ==
    \/ \E p \in Procs, f \in BOOLEAN, d \in BOOLEAN, w \in BOOLEAN, key \in BOOLEAN :
          Main(p, f, d, w, key)
    \/ \E p \in Procs : BeginPass(p)
    \/ \E p \in Procs : GetKnowledgeBases(p, "ok")
    \/ \E p \in Procs : CreateKnowledgeBase(p, "ok")
    \/ \E p \in Procs : GetKnowledgeFiles(p, "ok")
    \/ \E p \in Procs : ProcessFile(p)
    \/ \E p \in Procs : PurgeBeforeUpload(p, "ok", "ok")
    \/ \E p \in Procs, o \in Outcomes : UploadFile(p, o)
    \/ \E p \in Procs : AddFileToKnowledge(p, "ok")
    \/ \E p \in Procs : RemoveFile(p, "ok")
    \/ \E p \in Procs : SaveCache(p)
    \/ \E p \in Procs : FinishRun(p)
    \/ \E p \in Procs : EnterWatch(p)
    \/ \E p \in Procs : WatchCheck(p)
    \/ \E p \in Procs : WatchScan(p)
    \/ \E p \in Procs : Wake(p)
    \/ \E p \in Procs : StopWatch(p)
    \/ \E path \in Paths, v \in (1..MaxContent) \cup {Absent, Unreadable} : WriteFile(path, v)
    \/ \E c \in Edited, d \in DefChoices : EditDefinition(c, d)

SpecWatch == Init /\ [][NextWatch]_vars

\* --------------------------------------------------------------- parsing

\* the lines a definition file is written from
Refs == {<<"d">>, <<"e", "a.md">>, LinkToFile, DanglingLink, MissingPath,
         CommentLine, BlankLine}
DefsUpTo(n) == UNION {[1..k -> Refs] : k \in 0..n}

\* any definition of k1 of up to MaxLines lines, over any set of source
\* files present
InitParse ==
    /\ fs \in {f \in [AllPaths -> {Absent, 1}] : \A path \in FixedPaths : f[path] = 1}
    /\ defs \in {[c \in CollSet |-> IF c = "k1" THEN d ELSE << <<"e", "a.md">> >>] :
                    d \in DefsUpTo(MaxLines)}
    /\ disk = InitCache
    /\ kbs = <<"k1">>
    /\ att = << {<<"a.md", 1>>, <<"b.md", 2>>, <<"a.md", 3>>} >>
    /\ uploads = InitUploads
    /\ runs = 0
    /\ edits = 0
    /\ fails = 0
    /\ stable = [c \in CollSet |-> NoId]
    /\ accepted = {<<"k1", "a.md", 1>>, <<"k1", "b.md", 2>>, <<"k1", "a.md", 3>>}
    /\ dryRes = [c \in CollSet |-> NoDry]
    /\ mtime = [c \in CollSet |-> 0]
    /\ broken = {}
    /\ proc = [p \in Procs |-> Idle]

\* a run with --dry-run, as far as the parse of each definition
NextParse ==
    \/ \E p \in Procs : StartRun(p, FALSE, TRUE)
    \/ \E p \in Procs : BeginPass(p)

SpecParse == InitParse /\ [][NextParse]_vars

\* ----------------------------------------------- the indexer's watch mode

\* index_docs.py --watch: the main thread of watch_directory and the
\* observer thread that calls IndexHandler
Indexers == {"indexer"}

\* SUPPORTED_EXTENSIONS
Supported == {".md", ".txt", ".markdown", ".rst"}

\* IndexHandler._should_process
ShouldProcess(path) == Suffix(FileName(path)) \in Supported

\* the files of the watched directory that are written and deleted
WatchedPaths == Paths \cup {<<"d", "c.bin">>}

\* after main()'s first index_directory: every supported file is indexed
\* with its content, the handler is new, the main thread sleeps
InitIndex ==
    /\ InitEnv
    /\ proc = [p \in Indexers |->
                 [pc |-> "sleep",
                  pending_files |-> {},     \* handler.pending_files
                  todo |-> <<>>,            \* list(handler.pending_files), the rest of it
                  index |-> [path \in {x \in AllPaths : ShouldProcess(x)} |-> fs[path]],
                                            \* path -> the content its points were made from
                  owed |-> {}]]             \* paths with an event no index_file call followed yet

\* observer thread: a file is created or written, on_created/on_modified
OnModified(p, path, v) ==
    LET q == proc[p] IN
    /\ edits < MaxEvents
    /\ v # fs[path]
    /\ fs' = [fs EXCEPT ![path] = v]
    /\ edits' = edits + 1
    /\ proc' = [proc EXCEPT ![p] =
                  IF ShouldProcess(path)
                  THEN [q EXCEPT !.pending_files = @ \cup {path},
                                 !.owed = @ \cup {path}]
                  ELSE q]
    /\ UNCHANGED <<defs, disk, kbs, att, uploads, runs, fails, stable, accepted,
                   dryRes, mtime, broken>>

\* observer thread: a file is deleted, on_deleted removes its points
OnDeleted(p, path) ==
    LET q == proc[p] IN
    /\ edits < MaxEvents
    /\ fs[path] # Absent
    /\ fs' = [fs EXCEPT ![path] = Absent]
    /\ edits' = edits + 1
    /\ proc' = [proc EXCEPT ![p] =
                  IF ShouldProcess(path)
                  THEN [q EXCEPT !.index = Del(@, path), !.owed = @ \ {path}]
                  ELSE q]
    /\ UNCHANGED <<defs, disk, kbs, att, uploads, runs, fails, stable, accepted,
                   dryRes, mtime, broken>>

\* main thread: the sleep is over and files are pending; list() copies the
\* set (lines 257-260)
WakeUp(p) ==
    LET q == proc[p] IN
    /\ q.pc = "sleep"
    /\ q.pending_files # {}
    /\ \E order \in Perms(q.pending_files) :
         proc' = [proc EXCEPT ![p] = [q EXCEPT !.todo = order, !.pc = "loop"]]
    /\ UNCHANGED <<fs, defs, disk, kbs, att, uploads, runs, edits, fails, stable,
                   accepted, dryRes, mtime, broken>>

\* main thread: one turn of the for loop (lines 260-263)
IndexNext(p) ==
    LET q == proc[p]
        path == Head(q.todo) IN
    /\ q.pc = "loop"
    /\ q.todo # <<>>
    /\ proc' = [proc EXCEPT ![p] =
                  IF fs[path] # Absent
                  THEN [q EXCEPT !.index = Put(@, path, fs[path]),
                                 !.owed = @ \ {path},
                                 !.todo = Tail(@)]
                  ELSE [q EXCEPT !.todo = Tail(@)]]
    /\ UNCHANGED <<fs, defs, disk, kbs, att, uploads, runs, edits, fails, stable,
                   accepted, dryRes, mtime, broken>>

\* main thread: pending_files.clear() and get_stats (lines 264-266)
ClearPending(p) ==
    LET q == proc[p] IN
    /\ q.pc = "loop"
    /\ q.todo = <<>>
    /\ proc' = [proc EXCEPT ![p] = [q EXCEPT !.pending_files = {}, !.pc = "sleep"]]
    /\ UNCHANGED <<fs, defs, disk, kbs, att, uploads, runs, edits, fails, stable,
                   accepted, dryRes, mtime, broken>>

NextIndex ==
    \/ \E p \in Indexers, path \in WatchedPaths, v \in 1..MaxContent : OnModified(p, path, v)
    \/ \E p \in Indexers, path \in WatchedPaths : OnDeleted(p, path)
    \/ \E p \in Indexers : WakeUp(p)
    \/ \E p \in Indexers : IndexNext(p)
    \/ \E p \in Indexers : ClearPending(p)

SpecIndex == InitIndex /\ [][NextIndex]_vars

\* ------------------------------------------------------------ interrupts

\* an external interrupt (Ctrl+C, kill) ends a run of sync_all in the middle
\* of a pass: nothing catches it there, the in-memory cache is lost
Interrupt(p) ==
    LET q == proc[p] IN
    /\ q.pc \in {"kbs", "create", "files", "file", "purge", "upload", "attach",
                 "repurge", "reattach", "scan"}
    /\ q.mode = "sync"
    /\ proc' = [proc EXCEPT ![p] = [q EXCEPT !.pc = "crashed"]]
    /\ broken' = IF q.dry THEN broken ELSE broken \cup {q.cur}
    /\ UNCHANGED <<fs, defs, disk, kbs, att, uploads, runs, edits, fails,
                   stable, accepted, dryRes, mtime>>

\* live runs that may be interrupted, against a remote store that answers
\* every request with success
NextResume ==
    \/ \E p \in Procs, f \in BOOLEAN : StartRun(p, f, FALSE)
    \/ \E p \in Procs : BeginPass(p)
    \/ \E p \in Procs : GetKnowledgeBases(p, "ok")
    \/ \E p \in Procs : CreateKnowledgeBase(p, "ok")
    \/ \E p \in Procs : GetKnowledgeFiles(p, "ok")
    \/ \E p \in Procs : ProcessFile(p)
    \/ \E p \in Procs : PurgeBeforeUpload(p, "ok", "ok")
    \/ \E p \in Procs : UploadFile(p, "ok")
    \/ \E p \in Procs : AddFileToKnowledge(p, "ok")
    \/ \E p \in Procs : RemoveFile(p, "ok")
    \/ \E p \in Procs : SaveCache(p)
    \/ \E p \in Procs : FinishRun(p)
    \/ \E p \in Procs : Interrupt(p)
    \/ \E path \in Paths, v \in (1..MaxContent) \cup {Absent, Unreadable} : WriteFile(path, v)
    \/ \E c \in Edited, d \in DefChoices : EditDefinition(c, d)

SpecResume == Init /\ [][NextResume]_vars

\* ------------------------------------------------------------ properties

PassPcs == {"kbs", "create", "files", "file", "purge", "upload", "attach",
            "repurge", "reattach", "scan"}
InPass(q) == q.pc \in PassPcs

\* process p takes the step
Step(p) == proc'[p] # proc[p]

CallsOf(q) == {q.calls[j] : j \in 1..Len(q.calls)}
ResolvedNames(q) == {FileName(q.files[j]) : j \in 1..Len(q.files)}

\* the pass is the second of two passes in a row: the pass before it over the
\* same collection was live and unforced with every call succeeding, nothing
\* changed since, and the remote store answers this pass as it did that one
SecondRun(q) ==
    /\ InPass(q)
    /\ q.second # NoId
    /\ q.kb = q.second
    /\ AllOk(q.calls)

\* C1: the second of two live, unforced passes in a row with no
\* change between them issues no remote mutation call (purge, upload, attach,
\* detach, create).
C1_SecondRunIssuesNoMutation ==
    \A p \in Procs :
        SecondRun(proc[p]) => \A c \in CallsOf(proc[p]) : c.op \notin MutationOps

\* the identifier the upload of the file under way returned
UploadedId(q) ==
    LET ups == {j \in 1..Len(q.calls) :
                   /\ q.calls[j].op = "upload"
                   /\ q.calls[j].i = q.idx
                   /\ q.calls[j].res = "ok"} IN
    IF ups = {} THEN NoId ELSE q.calls[CHOOSE j \in ups : \A k \in ups : k <= j].id

LastCall(q) == q.calls[Len(q.calls)]
CurName(q) == FileName(q.files[q.idx])
Readable(path) == fs[path] \notin {Absent, Unreadable}

Returns(p) == Step(p) /\ Len(proc'[p].results) = Len(proc[p].results) + 1

\* C3: a live pass detaches every file that has a cache entry and is absent
\* from the resolved set (an empty resolved set included), deletes its cache
\* entry, and returns the number of such files as its removed count.
C3_RemovalCorrect ==
    [][\A p \in Procs :
        LET r == proc'[p]
            before == Get(r.disk0, r.cur, EmptyMap)
            gone == DOMAIN before \ ResolvedNames(r) IN
        (Returns(p) /\ ~r.argDry /\ AllOk(r.calls)) =>
            /\ Last(r.results)[2][3] = Cardinality(gone)
            /\ \A n \in gone :
                  /\ n \notin DOMAIN Get(r.cache, r.cur, EmptyMap)
                  /\ \E c \in CallsOf(r) : c.op = "detach" /\ c.name = n
    ]_vars

\* C4: when the first attach of an uploaded file failed with the
\* duplicate-content condition and the attach retried after the purge
\* succeeds, the file is counted as added or updated and its cache entry
\* holds the file's current hash and the identifier the upload returned.
C4_DuplicateRecovery ==
    [][\A p \in Procs :
        LET q == proc[p]
            r == proc'[p] IN
        (Step(p) /\ q.pc = "reattach" /\ LastCall(r).res = "ok") =>
            /\ LastCall(q).op = "purge"
            /\ \E j \in 1..Len(q.calls) :
                  /\ q.calls[j].op = "attach" /\ q.calls[j].i = q.idx
                  /\ q.calls[j].res = "dup"
            /\ r.cnt[1] + r.cnt[2] = q.cnt[1] + q.cnt[2] + 1
            /\ r.cnt[3] = q.cnt[3]
            /\ (r.cnt[2] = q.cnt[2] + 1) = (CurName(q) \in DOMAIN q.existing)
            /\ r.cache[q.cur][CurName(q)] =
                  [hash |-> FileHash(q.files[q.idx]), file_id |-> UploadedId(q)]
            /\ UploadedId(q) # NoId
            /\ UploadedId(q) \notin {c.id : c \in {d \in CallsOf(q) : d.op = "upload" /\ d.i # q.idx}}
    ]_vars

\* a file was synced by the retried attach
C4_Witness ==
    \E p \in Procs :
        LET q == proc[p] IN
        /\ InPass(q)
        /\ \E j, k \in 1..Len(q.calls) :
              /\ j < k
              /\ q.calls[j].op = "attach" /\ q.calls[j].res = "dup"
              /\ q.calls[k].op = "attach" /\ q.calls[k].res = "ok"
              /\ q.calls[j].i = q.calls[k].i
              /\ FileName(q.files[q.calls[k].i]) \in DOMAIN q.cache[q.cur]
              /\ q.cache[q.cur][FileName(q.files[q.calls[k].i])].file_id = q.calls[k].id

\* C5: a live pass in which every call succeeds returns the counts that a
\* dry-run pass started from the same state returned.
C5_DryRunFaithful ==
    \A p \in Procs :
        LET q == proc[p] IN
        (q.pc = "scan" /\ ToRemove(q) = {} /\ q.expect # NoCounts /\ AllOk(q.calls))
            => q.cnt = q.expect

\* p acts in a dry run
DryActive(q) == (q.pc = "all" /\ q.argDry) \/ (InPass(q) /\ q.dry)

\* C6: a dry-run pass issues no create, purge, upload, attach or detach call
\* (the remote store keeps its state) and leaves the cache file as it was.
C6_DryRunMutatesNothing ==
    [][\A p \in Procs :
        (Step(p) /\ DryActive(proc[p])) =>
            /\ disk' = disk
            /\ kbs' = kbs /\ att' = att /\ uploads' = uploads
            /\ \A c \in CallsOf(proc'[p]) : c.op \notin MutationOps
    ]_vars

\* a dry-run pass that counted a file
C6_Witness ==
    \E p \in Procs :
        /\ proc[p].pc = "scan"
        /\ proc[p].dry
        /\ proc[p].cnt[1] + proc[p].cnt[2] > 0

\* C7: the loop passes over a file (no call, no count) exactly when the pass
\* is not forced, the cached hash is the current hash, a cached identifier
\* exists and the remote listing of this pass holds the file name; in every
\* other case the file goes to the sync action: counted in a dry run, read
\* for the purge and the upload in a live pass.
C7_SkipCondition ==
    [][\A p \in Procs :
        LET q == proc[p]
            r == proc'[p]
            cached == IF CurName(q) \in DOMAIN q.cache[q.cur]
                      THEN q.cache[q.cur][CurName(q)] ELSE NoEntry
            four == /\ ~q.force
                    /\ cached.hash = FileHash(q.files[q.idx])
                    /\ cached.file_id # NoId
                    /\ \E n \in DOMAIN q.existing : n = CurName(q)
            skipped == /\ r.pc \in {"file", "scan"}
                       /\ r.idx = q.idx + 1
                       /\ r.cnt = q.cnt
                       /\ r.calls = q.calls
                       /\ r.cache = q.cache
            synced == IF q.dry
                      THEN /\ r.idx = q.idx + 1
                           /\ r.cnt[1] + r.cnt[2] = q.cnt[1] + q.cnt[2] + 1
                      ELSE r.pc \in {"purge", "crashed"} /\ r.idx = q.idx IN
        (Step(p) /\ q.pc = "file") =>
            /\ skipped <=> four
            /\ ~four => synced
    ]_vars

\* the first file of a live pass was passed over and the second one was not
C7_Witness ==
    \E p \in Procs :
        LET q == proc[p] IN
        /\ q.pc = "purge"
        /\ q.idx = 2
        /\ \A c \in CallsOf(q) : c.op \in {"list_kbs", "list_files"}

\* C8: every cache entry, in memory and in the cache file, holds an
\* identifier that an upload returned and that a successful attach to the
\* entry's collection accepted; an entry is written only by the step in which
\* the attach of that identifier succeeds.
C8_CacheValid ==
    /\ [](\A p \in Procs : \A c \in DOMAIN proc[p].cache : \A n \in DOMAIN proc[p].cache[c] :
            /\ proc[p].cache[c][n].file_id \in 1..Len(uploads)
            /\ <<c, n, proc[p].cache[c][n].file_id>> \in accepted)
    /\ [](\A c \in DOMAIN disk : \A n \in DOMAIN disk[c] :
            /\ disk[c][n].file_id \in 1..Len(uploads)
            /\ <<c, n, disk[c][n].file_id>> \in accepted)
    /\ [][\A p \in Procs :
            LET q == proc[p]
                r == proc'[p] IN
            (Step(p) /\ InPass(q)) =>
                \A c \in DOMAIN r.cache : \A n \in DOMAIN r.cache[c] :
                    (c \notin DOMAIN q.cache \/ n \notin DOMAIN q.cache[c]
                       \/ r.cache[c][n] # q.cache[c][n]) =>
                        /\ q.pc \in {"attach", "reattach"}
                        /\ LastCall(r).op = "attach"
                        /\ LastCall(r).res = "ok"
                        /\ LastCall(r).id = r.cache[c][n].file_id
                        /\ c = q.cur /\ n = CurName(q)
      ]_vars

\* the cache file holds an entry written in this behaviour
C8_Witness ==
    \E c \in DOMAIN disk : \E n \in DOMAIN disk[c] :
        disk[c][n].file_id > Len(InitUploads)

\* positions of the attach calls for the file at position i
Attaches(q, i) ==
    {j \in 1..Len(q.calls) : q.calls[j].op = "attach" /\ q.calls[j].i = i}

\* C9: for one file in one pass attach is attempted at most twice; a second
\* attempt follows a first one that failed with the duplicate-content
\* condition, with a purge for the file's content hash between the two; an
\* attach that failed otherwise is the file's last.
C9_BoundedRetry ==
    \A p \in Procs :
        LET q == proc[p] IN
        InPass(q) =>
            \A i \in 1..Len(q.files) :
                /\ Cardinality(Attaches(q, i)) <= 2
                /\ \A j, k \in Attaches(q, i) :
                      j < k =>
                        /\ q.calls[j].res = "dup"
                        /\ \E m \in (j + 1)..(k - 1) :
                              /\ q.calls[m].op = "purge"
                              /\ q.calls[m].i = i
                              /\ q.calls[m].h = Sha256(fs[q.files[i]])

\* a file whose attach was tried twice and failed twice
C9_Witness ==
    \E p \in Procs :
        LET q == proc[p] IN
        /\ InPass(q)
        /\ \E i \in 1..Len(q.files) :
              /\ Cardinality(Attaches(q, i)) = 2
              /\ \A j \in Attaches(q, i) : q.calls[j].res # "ok"

\* C10: a process stops only after sync_collection went through every
\* resolved file and the removal scan, and sync_all through every collection:
\* no failure on one file ends the pass or the run.
C10_FailureIsolation ==
    \A p \in Procs :
        proc[p].pc \in {"off", "crashed"} =>
            /\ proc[p].todo = <<>>
            /\ proc[p].files = <<>> \/ proc[p].idx > Len(proc[p].files)

\* calls of the pass that act on a file
FileCalls(q) == {c \in CallsOf(q) : c.op \in {"purge", "upload", "attach", "detach"}}

\* C11: a live pass that finds no knowledge base of the collection's name
\* issues create before any purge, upload, attach or detach, and works on
\* files only with a knowledge base of that name; if the creation fails the
\* pass returns (0, 0, 0) with no file call issued and with the cache, the
\* cache file and the remote store as they were.
C11_Bootstrap ==
    /\ [](\A p \in Procs :
            LET q == proc[p] IN
            /\ q.pc \in {"kbs", "create"} => FileCalls(q) = {}
            /\ (InPass(q) /\ ~q.dry /\ q.pc \notin {"kbs", "create"})
               => (q.kb \in 1..Len(kbs) /\ kbs[q.kb] = q.cur))
    /\ [][\A p \in Procs :
            LET q == proc[p]
                r == proc'[p] IN
            Step(p) =>
                /\ (q.pc = "kbs" /\ ~q.dry
                      /\ ~\E k \in 1..Len(kbs) : kbs[k] = q.cur)
                   => r.pc = "create"
                /\ q.pc = "create"
                   => (LastCall(r).op = "create" /\ Len(r.calls) = Len(q.calls) + 1)
                /\ (q.pc = "create" /\ LastCall(r).res = "ok")
                   => (r.pc = "files" /\ Len(kbs') = Len(kbs) + 1 /\ r.kb = Len(kbs'))
                /\ (q.pc = "create" /\ LastCall(r).res # "ok")
                   => /\ Returns(p)
                      /\ Last(r.results) = <<q.cur, <<0, 0, 0>>>>
                      /\ FileCalls(r) = {}
                      /\ r.cache = q.cache /\ q.cache = q.disk0
                      /\ disk' = disk /\ kbs' = kbs /\ att' = att /\ uploads' = uploads
      ]_vars

\* a pass created its knowledge base and went on to upload a file
C11_Witness ==
    \E p \in Procs :
        /\ proc[p].pc = "attach"
        /\ \E c \in CallsOf(proc[p]) : c.op = "create" /\ c.res = "ok"

\* C12: at most one knowledge base exists for each collection name, and a
\* pass is about to issue create for a name only when no knowledge base of
\* that name exists.
C12_CollectionUnique ==
    /\ \A j, k \in 1..Len(kbs) : kbs[j] = kbs[k] => j = k
    /\ \A p \in Procs :
          proc[p].pc = "create" => ~\E k \in 1..Len(kbs) : kbs[k] = proc[p].cur

\* C13: in a live pass the removal scan deletes the cache entry of a file
\* and counts it as removed only when the detach of that file succeeded.
C13_DetachFailureKeepsEntry ==
    [][\A p \in Procs :
        LET q == proc[p]
            r == proc'[p] IN
        (Step(p) /\ q.pc = "scan" /\ ~q.dry /\ r.pc = "scan"
           /\ LastCall(r).op = "detach" /\ LastCall(r).res # "ok") =>
            /\ r.cache = q.cache
            /\ r.cnt = q.cnt
    ]_vars

\* C14: the sequence _parse_definition returned holds no file path twice.
C14_ParserDeduplicates ==
    \A p \in Procs :
        LET q == proc[p] IN
        InPass(q) => \A j, k \in 1..Len(q.files) : q.files[j] = q.files[k] => j = k

\* the process stands at a remote mutation or at the write of the cache file
Mutating(q) ==
    /\ ~q.dry
    /\ q.pc \in {"create", "purge", "upload", "attach", "repurge", "reattach", "scan"}

\* C15: no two processes stand at a remote mutation or a cache-file write
\* for the same collection at the same moment.
C15_NoConcurrentMutation ==
    \A p, r \in AllProcs :
        (p # r /\ Mutating(proc[p]) /\ Mutating(proc[r])) => proc[p].cur # proc[r].cur

\* C16: when the last live pass over a collection was interrupted, a live
\* pass over it that reaches its end with every call succeeding leaves, for
\* every resolved file, a cache entry with the file's current hash and an
\* identifier attached to the collection, and the cache file equal to the
\* cache in memory.
C16_Resumable ==
    [][\A p \in Procs :
        LET q == proc[p]
            r == proc'[p] IN
        (Returns(p) /\ q.pc = "scan" /\ ~q.dry /\ q.resume /\ AllOk(q.calls)) =>
            /\ disk' = r.cache
            /\ \A j \in 1..Len(q.files) :
                  LET n == FileName(q.files[j]) IN
                  /\ n \in DOMAIN r.cache[q.cur]
                  /\ r.cache[q.cur][n].hash = FileHash(q.files[j])
                  /\ <<n, r.cache[q.cur][n].file_id>> \in att'[q.kb]
    ]_vars

\* C17: every live sync_collection call persists the cache exactly once,
\* after all files and the removal scan, and never between two files.
C17_PersistsOncePerCall ==
    [][\A p \in Procs :
        LET q == proc[p]
            r == proc'[p] IN
        Step(p) =>
            /\ (Returns(p) /\ ~r.dry)
               => (r.saves = 1 /\ q.pc = "scan" /\ ToRemove(q) = {})
            /\ (~Returns(p) /\ InPass(r)) => (r.saves = 0 /\ disk' = disk)
    ]_vars

\* C17 amended: a live sync_collection call that returns persists the cache
\* at most once: exactly once, after all files and the removal scan, when it
\* got past the lookup or creation of the knowledge base; not at all when it
\* returns early (empty resolved set, failed creation), and then the cache
\* in memory is what the cache file holds; never between two files.
C17_PersistsAtEndOnly ==
    [][\A p \in Procs :
        LET q == proc[p]
            r == proc'[p] IN
        Step(p) =>
            /\ (Returns(p) /\ ~r.dry /\ q.pc = "scan")
               => /\ r.saves = 1
                  /\ disk' = r.cache
                  /\ q.idx > Len(q.files)
                  /\ ToRemove(q) = {}
            /\ (Returns(p) /\ ~r.dry /\ q.pc # "scan")
               => /\ r.saves = 0
                  /\ disk' = disk
                  /\ r.cache = disk
                  /\ \/ r.files = <<>>
                     \/ (LastCall(r).op = "create" /\ LastCall(r).res # "ok")
            /\ (~Returns(p) /\ InPass(r)) => (r.saves = 0 /\ disk' = disk)
    ]_vars

\* a live pass uploaded a file, went through two files and has returned
\* with its one save
C17_Witness ==
    \E p \in Procs :
        LET q == proc[p] IN
        /\ q.pc = "all" /\ ~q.dry
        /\ q.saves = 1
        /\ Len(q.files) >= 2
        /\ \E c \in CallsOf(q) : c.op = "upload"
        /\ disk = q.cache /\ disk # q.disk0

\* the backing collections _clear_qdrant_duplicates deletes from
Backing == {"open-webui_knowledge", "open-webui_files"}

\* C19: in a live pass, for every file: a purge for the file's full content
\* hash is issued before the upload, the upload completes before any attach,
\* an attach carries the identifier that upload returned, and after a failed
\* upload no attach is issued for the file.
C19_OperationOrder ==
    \A p \in Procs :
        LET q == proc[p]
            n == Len(q.calls) IN
        (InPass(q) \/ q.pc = "all") =>
            /\ \A u \in 1..n :
                 q.calls[u].op = "upload" =>
                     /\ ~q.dry
                     /\ \A b \in Backing :
                          \E k \in 1..(u - 1) :
                              /\ q.calls[k].op = "purge"
                              /\ q.calls[k].i = q.calls[u].i
                              /\ q.calls[k].name = b
                              /\ q.calls[k].h = Sha256(fs[q.files[q.calls[u].i]])
                     /\ \A v \in 1..n :
                          (q.calls[v].op = "upload" /\ q.calls[v].i = q.calls[u].i)
                              => v = u
                     /\ (q.calls[u].res = "ok") = (q.calls[u].id # NoId)
            /\ \A j \in 1..n :
                 q.calls[j].op = "attach" =>
                     \E u \in 1..(j - 1) :
                         /\ q.calls[u].op = "upload"
                         /\ q.calls[u].i = q.calls[j].i
                         /\ q.calls[u].res = "ok"
                         /\ q.calls[u].id = q.calls[j].id
            /\ \A u \in 1..n :
                 (q.calls[u].op = "upload" /\ q.calls[u].res # "ok") =>
                     \A j \in 1..n :
                         q.calls[j].op = "attach" => q.calls[j].i # q.calls[u].i

\* a live pass has had one upload fail and has attached another file under
\* the identifier its upload returned
C19_Witness ==
    \E p \in Procs :
        LET q == proc[p] IN
        /\ InPass(q) /\ ~q.dry
        /\ \E u, j \in 1..Len(q.calls) :
             /\ q.calls[u].op = "upload" /\ q.calls[u].res # "ok"
             /\ q.calls[j].op = "attach" /\ q.calls[j].res = "ok"
             /\ uploads[q.calls[j].id] = q.calls[j].name
\* the source files a definition refers to (whatever the order)
Referenced(c) ==
    UNION {{fl[i] : i \in 1..Len(fl)} : fl \in ParseDefinition(defs[c])}

\* the hash the process recorded when it last synced the file, if any
LastSynced(q, c, path) ==
    IF c \in DOMAIN q.cache /\ FileName(path) \in DOMAIN q.cache[c]
    THEN q.cache[c][FileName(path)].hash
    ELSE NoneHash

C20_MissingCredentialIsFatal ==
    /\ [](\A p \in Procs :
            LET q == proc[p] IN
            ~q.api_key =>
                /\ q.pc = "off"
                /\ q.exit # 0
                /\ q.calls = <<>>
                /\ q.results = <<>>
                /\ q.mode = "sync")
    /\ [][\A p \in Procs :
            (Step(p) /\ ~proc'[p].api_key) =>
                /\ proc'[p].exit # 0
                /\ UNCHANGED <<disk, kbs, att, uploads, accepted>>
      ]_vars

\* a process started with --watch and without the credential has ended with
\* status 1
C20_Witness ==
    \E p \in Procs :
        /\ ~proc[p].api_key /\ proc[p].argWatch
        /\ proc[p].pc = "off" /\ proc[p].exit = 1
        /\ runs > 0

\* the reference names nothing that exists
MissingRef(line) ==
    LET path == Resolve(TranslatePath(line)) IN
    \/ path \notin AllPaths \cup DirPaths
    \/ (path \in AllPaths /\ fs[path] = Absent)

\* what one line of a definition may contribute to the result
Contribution(line) ==
    IF line = BlankLine \/ line[1] = "#" \/ MissingRef(line) THEN {<<>>}
    ELSE ResolvePath(line)

\* files is made of one contribution per line, in the order of the lines
InDefinitionOrder(files, lines) ==
    \E cut \in [0..Len(lines) -> 0..Len(files)] :
        /\ cut[0] = 0
        /\ cut[Len(lines)] = Len(files)
        /\ \A i \in 1..Len(lines) :
             /\ cut[i - 1] <= cut[i]
             /\ SubSeq(files, cut[i - 1] + 1, cut[i]) \in Contribution(lines[i])

\* C21: a path reference that does not exist (a symbolic link whose target
\* does not exist included) contributes no file and does not end the parse:
\* every later line is resolved and the files appear in definition order.
C21_MissingPathNotFatal ==
    \A p \in Procs :
        proc[p].cur = "k1" => InDefinitionOrder(proc[p].files, defs["k1"])

\* the definition starts with the dangling link and a missing path, and the
\* parse has returned the files of the directory that follows
C21_Witness ==
    \E p \in Procs :
        /\ proc[p].cur = "k1"
        /\ defs["k1"] = <<DanglingLink, MissingPath, <<"d">> >>
        /\ Len(proc[p].files) = 2

\* the process but for its log of calls
NoLog(q) == [q EXCEPT !.calls = <<>>]

\* C22: whatever the deletion calls answer, _clear_qdrant_duplicates raises
\* nothing and attempts the deletion against both backing collections, and
\* the caller goes on to the upload (or to the retried attach) as after a
\* successful purge.
C22_PurgeAdvisory ==
    [][\A p \in Procs :
        LET q == proc[p]
            r == proc'[p]
            n == Len(q.calls) IN
        (Step(p) /\ q.pc \in {"purge", "repurge"}) =>
            /\ r.pc = (IF q.pc = "purge" THEN "upload" ELSE "reattach")
            /\ NoLog(r) = NoLog([q EXCEPT !.pc = r.pc])
            /\ Len(r.calls) = n + 2
            /\ SubSeq(r.calls, 1, n) = q.calls
            /\ {r.calls[n + 1].name, r.calls[n + 2].name} = Backing
            /\ \A k \in {n + 1, n + 2} :
                 /\ r.calls[k].op = "purge"
                 /\ r.calls[k].i = q.idx
                 /\ r.calls[k].h = q.chash
            /\ UNCHANGED <<fs, defs, disk, kbs, att, uploads, accepted>>
    ]_vars

\* both deletions of a purge failed and the upload of the file succeeded
C22_Witness ==
    \E p \in Procs :
        LET q == proc[p]
            n == Len(q.calls) IN
        /\ q.pc = "attach"
        /\ n >= 3
        /\ q.calls[n].op = "upload" /\ q.calls[n].res = "ok"
        /\ q.calls[n - 1].op = "purge" /\ q.calls[n - 1].res = "err"
        /\ q.calls[n - 2].op = "purge" /\ q.calls[n - 2].res = "err"

\* the pass has logged a call op for the file at position i
Issued(q, op, i) == \E c \in CallsOf(q) : c.op = op /\ c.i = i

\* C23: a live pass with force=True issues purge, upload and attach for
\* every resolved file, regardless of the cache and of the remote listing.
C23_ForceReuploadsAll ==
    [][\A p \in Procs :
        LET r == proc'[p] IN
        (Returns(p) /\ r.force /\ ~r.dry) =>
            \A i \in 1..Len(r.files) :
                Issued(r, "purge", i) /\ Issued(r, "upload", i) /\ Issued(r, "attach", i)
    ]_vars

\* C23 amended: a live pass with force=True skips no file: every resolved
\* file the loop has gone past has been purged and uploaded, and attached
\* when, and only when, its upload succeeded, regardless of the cache and of
\* the remote listing; the loop stops before the last file only at a file
\* that cannot be read, where the pass ends with the exception.
C23_ForceSkipsNothing ==
    /\ [](\A p \in Procs :
            LET q == proc[p] IN
            (q.force /\ ~q.dry) =>
                /\ \A i \in 1..(q.idx - 1) :
                     /\ Issued(q, "purge", i)
                     /\ Issued(q, "upload", i)
                     /\ Issued(q, "attach", i)
                        = (\E c \in CallsOf(q) :
                              c.op = "upload" /\ c.i = i /\ c.res = "ok")
                /\ q.pc = "scan" => q.idx = Len(q.files) + 1)
    /\ [][\A p \in Procs :
            LET q == proc[p]
                r == proc'[p] IN
            (Step(p) /\ q.force /\ ~q.dry /\ r.pc = "crashed") =>
                /\ q.pc = "file"
                /\ fs[q.files[q.idx]] \in {Absent, Unreadable}
      ]_vars

\* a forced live pass is through its two files: both had a matching cache
\* entry and were in the listing; one upload failed, the other file is
\* attached
C23_Witness ==
    \E p \in Procs :
        LET q == proc[p] IN
        /\ q.pc = "scan" /\ q.force /\ ~q.dry
        /\ Len(q.files) = 2
        /\ \A i \in 1..2 :
             /\ FileName(q.files[i]) \in DOMAIN q.existing
             /\ Get(q.disk0[q.cur], FileName(q.files[i]), NoEntry).hash = FileHash(q.files[i])
        /\ \E c \in CallsOf(q) : c.op = "upload" /\ c.res = "err"
        /\ \E c \in CallsOf(q) : c.op = "attach" /\ c.res = "ok"

\* C24: a process started with --watch and --dry-run issues no remote
\* mutation call (create, purge, upload, attach, detach) and writes no cache
\* file at any point of its run, the watch loop included.
C24_WatchDryRunMutatesNothing ==
    [][\A p \in Procs :
        LET q == proc[p]
            r == proc'[p] IN
        (Step(p) /\ q.argWatch /\ q.argDry) =>
            /\ \A c \in CallsOf(r) : c.op \notin MutationOps
            /\ UNCHANGED <<disk, kbs, att, uploads>>
    ]_vars

\* C25: detach is issued only in the trailing removal scan and only for
\* (file name, identifier) pairs of the listing fetched at the start of the
\* pass whose name is not in the resolved set; an update does not detach the
\* identifier attached before under the file's name.
C25_DetachOnlyInScan ==
    /\ [](\A p \in Procs :
            LET q == proc[p] IN
            \A j \in 1..Len(q.calls) :
                q.calls[j].op = "detach" =>
                    /\ ~q.dry
                    /\ q.calls[j].name \notin ResolvedNames(q)
                    /\ q.calls[j].name \in DOMAIN q.existing
                    /\ q.existing[q.calls[j].name] = q.calls[j].id
                    /\ \A k \in j..Len(q.calls) : q.calls[k].op = "detach")
    /\ [][\A p \in Procs :
            LET q == proc[p]
                r == proc'[p] IN
            Step(p) =>
                IF Len(r.calls) > Len(q.calls) /\ LastCall(r).op = "detach"
                THEN /\ q.pc = "scan"
                     /\ q.idx = Len(q.files) + 1
                     /\ \A x \in att[q.kb] \ att'[q.kb] :
                          x = <<LastCall(r).name, LastCall(r).id>>
                ELSE \A k \in 1..Len(att) : att[k] \subseteq att'[k]
      ]_vars

\* a pass has updated one file of the listing and detached another
C25_Witness ==
    \E p \in Procs :
        LET q == proc[p] IN
        /\ \E c \in CallsOf(q) : c.op = "detach" /\ c.res = "ok"
        /\ \E c \in CallsOf(q) :
             /\ c.op = "attach" /\ c.res = "ok"
             /\ c.name \in DOMAIN q.existing
             /\ <<c.name, q.existing[c.name]>> \in att[q.kb]

\* the listing request of the pass failed
ListingFailed(q) == \E c \in CallsOf(q) : c.op = "list_files" /\ c.res # "ok"

\* positions of the resolved files whose attach succeeded
Attached(q) ==
    {i \in 1..Len(q.files) :
        \E c \in CallsOf(q) : c.op = "attach" /\ c.i = i /\ c.res = "ok"}

\* C26: if the file-listing call fails the pass treats the listing as empty:
\* it issues no detach and deletes no cache entry, and every resolved file
\* is purged, uploaded, attached and counted as added, even when its cache
\* entry matches its current hash.
C26_FailedListingResyncsAll ==
    [][\A p \in Procs :
        LET r == proc'[p] IN
        (Returns(p) /\ ~r.dry /\ ListingFailed(r)) =>
            /\ \A c \in CallsOf(r) : c.op # "detach"
            /\ DOMAIN r.disk0[r.cur] \subseteq DOMAIN r.cache[r.cur]
            /\ \A i \in 1..Len(r.files) :
                 Issued(r, "purge", i) /\ Issued(r, "upload", i) /\ Issued(r, "attach", i)
            /\ r.cnt = <<Len(r.files), 0, 0>>
    ]_vars

\* C26 amended: if the file-listing call fails the pass treats the listing
\* as empty: it issues no detach and deletes no cache entry, and no resolved
\* file is skipped, even when its cache entry matches its current hash:
\* every file the loop has gone past has been purged and uploaded, and
\* attached when, and only when, its upload succeeded; the files whose
\* attach succeeded are counted as added, none as updated or removed.
C26_FailedListingSkipsNothing ==
    \A p \in Procs :
        LET q == proc[p] IN
        (~q.dry /\ ListingFailed(q)) =>
            /\ q.existing = EmptyMap
            /\ \A c \in CallsOf(q) : c.op # "detach"
            /\ q.cur \in DOMAIN q.disk0
               => DOMAIN q.disk0[q.cur] \subseteq DOMAIN q.cache[q.cur]
            /\ \A i \in 1..(q.idx - 1) :
                 /\ Issued(q, "purge", i)
                 /\ Issued(q, "upload", i)
                 /\ Issued(q, "attach", i)
                    = (\E c \in CallsOf(q) :
                          c.op = "upload" /\ c.i = i /\ c.res = "ok")
            /\ q.cnt = <<Cardinality(Attached(q)), 0, 0>>

\* the listing failed in an unforced pass, and a file whose cache entry
\* matches its hash has been uploaded again and counted as added
C26_Witness ==
    \E p \in Procs :
        LET q == proc[p] IN
        /\ q.pc = "scan" /\ ~q.dry /\ ~q.force
        /\ ListingFailed(q)
        /\ q.cnt[1] >= 1
        /\ \E i \in Attached(q) :
             /\ q.cur \in DOMAIN q.disk0
             /\ Get(q.disk0[q.cur], FileName(q.files[i]), NoEntry).hash = FileHash(q.files[i])

\* C27: if a definition resolves to zero files, sync_collection returns
\* (0, 0, 0) without any remote call (the listing of the knowledge bases
\* included), without changing a cache entry and without persisting the
\* cache.
C27_EmptyDefinitionIsNoOp ==
    /\ [](\A p \in Procs : InPass(proc[p]) => proc[p].files # <<>>)
    /\ [][\A p \in Procs :
            LET q == proc[p]
                r == proc'[p] IN
            (/\ Step(p)
             /\ q.pc = "all" /\ q.todo # <<>>
             /\ ParseDefinition(defs[Head(q.todo)]) = {<<>>}) =>
                /\ Returns(p)
                /\ Last(r.results) = <<Head(q.todo), <<0, 0, 0>> >>
                /\ r.calls = <<>>
                /\ r.cache = q.cache
                /\ r.saves = 0
                /\ UNCHANGED <<disk, kbs, att, uploads, accepted, fails>>
      ]_vars

\* a live pass over k1, whose definition resolves to no file while the
\* cache holds entries of k1, has returned (0, 0, 0)
C27_Witness ==
    \E p \in Procs :
        LET q == proc[p] IN
        /\ q.pc = "all" /\ ~q.dry
        /\ q.results # <<>>
        /\ Last(q.results) = <<"k1", <<0, 0, 0>> >>
        /\ q.files = <<>>
        /\ ParseDefinition(defs["k1"]) = {<<>>}
        /\ DOMAIN q.cache["k1"] # {}

\* C28: in the indexer's watch mode no path the observer thread added to
\* pending_files is discarded by the main loop's clear() before index_file
\* has been called for it (if the file still exists).
C28_NoEventDiscarded ==
    [][\A p \in Indexers :
        \A path \in proc[p].pending_files \ proc'[p].pending_files :
            path \notin proc[p].owed
    ]_vars

====
